---- MODULE Spec2Model ----
(***************************************************************************)
(* Weekly seat-allocation engine of modules/seats.py                       *)
(* (compute_distribution_from_excel and its helpers) together with its    *)
(* callers in app.py (get_distribution_proposal,                          *)
(* generate_balanced_distribution) and compute_distribution_variants.     *)
(*                                                                         *)
(* Conventions of the model                                                *)
(*  - a Python dict is a TLA+ function together with the sequence of its  *)
(*    keys in insertion order (dict iteration order matters to the trim); *)
(*  - a text is a tuple of one-character strings where the code inspects  *)
(*    its characters (floor labels), a tuple of words where it inspects   *)
(*    words (rule texts);                                                  *)
(*  - a float is an exact rational <<num, den>>, a value rounded to two   *)
(*    decimals is the integer number of hundredths;                        *)
(*  - random.Random(seed) is a full-period linear congruential generator. *)
(***************************************************************************)
EXTENDS Integers, Sequences, FiniteSets, TLC

\* ------------------------------------------------------------------------
\* Bounds of the model
\* ------------------------------------------------------------------------
MaxPer == 3
MaxSeed == 1

\* ------------------------------------------------------------------------
\* Generic helpers
\* ------------------------------------------------------------------------
Max2(a, b) == IF a >= b THEN a ELSE b

Min2(a, b) == IF a <= b THEN a ELSE b

Abs(a) == IF a < 0 THEN -a ELSE a

RECURSIVE SumSeq(_)
SumSeq(s) ==
    IF s = <<>> THEN 0 ELSE CHOOSE r \in {Head(v) + SumSeq(Tail(v)) : v \in {s}} : TRUE

RECURSIVE Gcd(_, _)
Gcd(a, b) == IF b = 0 THEN a ELSE CHOOSE g \in {Gcd(b, r) : r \in {a % b}} : TRUE

\* rational numbers <<n, d>> with d > 0, kept in lowest terms
RatNorm(n, d) ==
    LET g == Gcd(Abs(n), d) IN IF g = 0 THEN <<0, 1>> ELSE <<n \div g, d \div g>>

RatAdd(x, y) ==
    CHOOSE r \in {RatNorm(a[1] * b[2] + b[1] * a[2], a[2] * b[2]) : a \in {x}, b \in {y}} : TRUE

RatLess(x, y) == x[1] * y[2] < y[1] * x[2]

\* Python round(num / den, 2) as a number of hundredths (round half to even)
Round2H(num, den) ==
    LET n == num * 100
        q == n \div den
        r == n % den
    IN  IF 2 * r > den THEN q + 1
        ELSE IF 2 * r < den THEN q
        ELSE IF q % 2 = 0 THEN q ELSE q + 1

\* keys of a sequence in first-seen order, without duplicates
RECURSIVE Dedup(_, _)
Dedup(s, acc) ==
    IF s = <<>> THEN acc
    ELSE IF \E i \in 1..Len(acc) : acc[i] = Head(s) THEN Dedup(Tail(s), acc)
    ELSE Dedup(Tail(s), Append(acc, Head(s)))

InSeq(x, s) == \E i \in 1..Len(s) : s[i] = x

\* ------------------------------------------------------------------------
\* random.Random: seeded generator threaded through the engine
\* ------------------------------------------------------------------------
RngMod == 16

\* a generator that is not re-seeded: it goes on from the state it was left in
RngSeed_Global(variant_seed_, global_) == global_

\* random.Random(variant_seed if variant_seed is not None else 0)
RngSeed(variant_seed_, global_) == variant_seed_ % RngMod

RngNext(s) == (5 * s + 3) % RngMod

\* rng.random(): the draw is the new state, read as a fraction of RngMod
RngRandom(s) == [val |-> RngNext(s), rng |-> RngNext(s)]

\* rng.choice(seq)
RngChoice(seq, s) == [val |-> seq[(RngNext(s) % Len(seq)) + 1], rng |-> RngNext(s)]

\* rng.shuffle(x): Fisher-Yates from the last index down to 1 (0-based)
RECURSIVE ShuffleFrom(_, _, _)
ShuffleFrom(x, i, s) ==
    IF i < 1 THEN [val |-> x, rng |-> s]
    ELSE LET s2 == RngNext(s)
             j  == s2 % (i + 1)
             y  == [x EXCEPT ![i + 1] = x[j + 1], ![j + 1] = x[i + 1]]
         IN ShuffleFrom(y, i - 1, s2)

RngShuffle(x, s) == ShuffleFrom(x, Len(x) - 1, s)

\* ------------------------------------------------------------------------
\* Text helpers
\* ------------------------------------------------------------------------
dias_semana == <<"Lunes", "Martes", "Miercoles", "Jueves", "Viernes">>

DiasSet == {dias_semana[i] : i \in 1..Len(dias_semana)}

Digits == {"0", "1", "2", "3", "4", "5", "6", "7", "8", "9"}

\* normalize_text on the team names of the model: lower-casing
normalize_text(text) ==
    CASE text = "A" -> "a"
      [] text = "B" -> "b"
      [] OTHER -> text

RECURSIVE DropWhileNot(_)
DropWhileNot(s) ==
    IF s = <<>> THEN <<>>
    ELSE IF Head(s) \in Digits THEN s ELSE DropWhileNot(Tail(s))

RECURSIVE TakeDigits(_)
TakeDigits(s) ==
    IF s = <<>> \/ Head(s) \notin Digits THEN <<>>
    ELSE <<Head(s)>> \o TakeDigits(Tail(s))

\* str(int(digits)): leading zeros dropped
RECURSIVE StripZeros(_)
StripZeros(s) ==
    IF Len(s) > 1 /\ Head(s) = "0" THEN StripZeros(Tail(s)) ELSE s

\* extract_clean_number_str: <<>> stands for None
extract_clean_number_str(val) ==
    LET nums == TakeDigits(DropWhileNot(val))
    IN  IF nums = <<>> THEN <<>> ELSE StripZeros(nums)

\* parse_full_day_rule on a text given as its words, which blanks separate;
\* "," is a comma, written right after the word before it
MapaDia(w) ==
    CASE w \in {"Lunes", "lunes"} -> <<"Lunes">>
      [] w \in {"Martes", "martes"} -> <<"Martes">>
      [] w \in {"Miercoles", "miercoles"} -> <<"Miercoles">>
      [] w \in {"Jueves", "jueves"} -> <<"Jueves">>
      [] w \in {"Viernes", "viernes"} -> <<"Viernes">>
      [] OTHER -> <<>>

\* the words of a text split at a separator word
RECURSIVE SplitWords(_, _, _)
SplitWords(ws, sep, cur) ==
    IF ws = <<>> THEN <<cur>>
    ELSE IF Head(ws) = sep THEN <<cur>> \o SplitWords(Tail(ws), sep, <<>>)
    ELSE SplitWords(Tail(ws), sep, Append(cur, Head(ws)))

\* for k, v in mapa.items(): if k in norm: days.append(v)
PartDays(part) ==
    SelectSeq(dias_semana, LAMBDA d : \E i \in 1..Len(part) : MapaDia(part[i]) = <<d>>)

RECURSIVE DaysOfParts(_)
DaysOfParts(parts) ==
    IF parts = <<>> THEN <<>> ELSE PartDays(Head(parts)) \o DaysOfParts(Tail(parts))

\* the positions the pattern (\s+o\s+|,\s*o\s+) matches, whatever the letter
\* case: a word "o" with a word or comma before it and a blank and a word
\* after it
ConnectiveAt(text) ==
    {i \in 2..(Len(text) - 1) : text[i] \in {"o", "O"} /\ text[i + 1] # ","}

\* re.split at the matches: the words between the connectives
RECURSIVE SplitAtConnectives(_, _, _, _)
SplitAtConnectives(text, cuts, i, cur) ==
    IF i > Len(text) THEN <<cur>>
    ELSE IF i \in cuts THEN <<cur>> \o SplitAtConnectives(text, cuts, i + 1, <<>>)
    ELSE SplitAtConnectives(text, cuts, i + 1, Append(cur, text[i]))

parse_full_day_rule(text) ==
    IF text = <<>> THEN [type |-> "none", days |-> <<>>]
    ELSE IF ConnectiveAt(text) # {}
         THEN [type |-> "choice",
               days |-> Dedup(DaysOfParts(SplitAtConnectives(text, ConnectiveAt(text), 1, <<>>)),
                              <<>>)]
         ELSE [type |-> "fixed",
               days |-> Dedup(DaysOfParts(SplitWords(text, ",", <<>>)), <<>>)]

\* ------------------------------------------------------------------------
\* Dict helpers: a dict is a function over its key set plus the key order
\* ------------------------------------------------------------------------
SeqToSet(s) == {s[i] : i \in 1..Len(s)}

\* sum(int(v) for v in alloc_day.values())
RECURSIVE SumOver(_, _)
SumOver(keys, f) == IF keys = <<>> THEN 0 ELSE f[Head(keys)] + SumOver(Tail(keys), f)

None == -1

\* ------------------------------------------------------------------------
\* choose_flexible_day
\* ------------------------------------------------------------------------
\* the keys (value, rng.random()) of the options, drawn in option order
RECURSIVE DrawKeys(_, _, _, _, _, _)
DrawKeys(opts, per, hard_limit, load_by_day, mode, s) ==
    IF opts = <<>> THEN [val |-> <<>>, rng |-> s]
    ELSE LET r    == RngRandom(s)
             v    == IF mode = "equilibrar" THEN load_by_day[Head(opts)]
                     ELSE hard_limit - (load_by_day[Head(opts)] + per)
             rest == DrawKeys(Tail(opts), per, hard_limit, load_by_day, mode, r.rng)
         IN [val |-> <<<<v, r.val>>>> \o rest.val, rng |-> rest.rng]

KeyLess(a, b) == a[1] < b[1] \/ (a[1] = b[1] /\ a[2] < b[2])

\* min(opts, key=...) / max(opts, key=...): the first extremal option
ArgMin(opts, keys) ==
    opts[CHOOSE i \in 1..Len(opts) :
            /\ \A j \in 1..Len(opts) : ~KeyLess(keys[j], keys[i])
            /\ \A j \in 1..(i - 1) : KeyLess(keys[i], keys[j])]

\* the first option, whatever the keys
ArgMax_First(opts, keys) == opts[1]

ArgMax(opts, keys) ==
    opts[CHOOSE i \in 1..Len(opts) :
            /\ \A j \in 1..Len(opts) : ~KeyLess(keys[i], keys[j])
            /\ \A j \in 1..(i - 1) : KeyLess(keys[j], keys[i])]

\* the result "" stands for None
choose_flexible_day(opts0, per, hard_limit, load_by_day, mode, s) ==
    LET opts == SelectSeq(opts0, LAMBDA d : d \in DOMAIN load_by_day)
    IN  IF opts = <<>> THEN [val |-> "", rng |-> s]
        ELSE IF mode = "aleatorio" THEN RngChoice(opts, s)
        ELSE LET k == DrawKeys(opts, per, hard_limit, load_by_day, mode, s)
             IN  IF mode = "equilibrar"
                 THEN [val |-> ArgMin(opts, k.val), rng |-> k.rng]
                 ELSE [val |-> ArgMax(opts, k.val), rng |-> k.rng]

\* ------------------------------------------------------------------------
\* _even_week_split
\* ------------------------------------------------------------------------
even_week_split(total_week, days, s) ==
    IF total_week <= 0
    THEN [val |-> [d \in SeqToSet(days) |-> 0], rng |-> s]
    ELSE LET base  == total_week \div Len(days)
             rem   == total_week % Len(days)
             order == RngShuffle(days, s)
         IN [val |-> [d \in SeqToSet(days) |->
                        base + (IF \E i \in 1..rem : order.val[i] = d THEN 1 ELSE 0)],
             rng |-> order.rng]

\* ------------------------------------------------------------------------
\* saint_lague_allocate
\* ------------------------------------------------------------------------
\* quotient(k1) > quotient(k2) for positive weights, compared exactly
QuotGreater_ByWeight(w1, a1, w2, a2) == w1 > w2

QuotGreater(w1, a1, w2, a2) == w1 * (2 * a2 + 1) > w2 * (2 * a1 + 1)

QuotEqual(w1, a1, w2, a2) == w1 * (2 * a2 + 1) = w2 * (2 * a1 + 1)

\* seats.py 137-143: the teams that can still be awarded a seat
Candidates(keys, weights, caps, alloc) ==
    SelectSeq(keys, LAMBDA k : weights[k] > 0 /\ alloc[k] < caps[k])

RECURSIVE SaintLagueLoop(_, _, _, _, _, _, _)
SaintLagueLoop(keys, weights, seats, current, caps, alloc, s) ==
    IF seats <= 0 THEN [val |-> alloc, rng |-> s]
    ELSE LET cand == Candidates(keys, weights, caps, alloc)
         IN  IF cand = <<>> THEN [val |-> alloc, rng |-> s]
             ELSE LET a(k)  == current[k] + alloc[k]
                      best  == CHOOSE k \in SeqToSet(cand) : \A k2 \in SeqToSet(cand) :
                                   ~QuotGreater(weights[k2], a(k2), weights[k], a(k))
                      tied  == SelectSeq(cand, LAMBDA k :
                                   QuotEqual(weights[k], a(k), weights[best], a(best)))
                      pick  == IF Len(tied) = 1 THEN [val |-> tied[1], rng |-> s]
                               ELSE RngChoice(tied, s)
                 IN SaintLagueLoop(keys, weights, seats - 1, current, caps,
                                   [alloc EXCEPT ![pick.val] = @ + 1], pick.rng)

saint_lague_allocate(keys, weights, seats, current, caps, s) ==
    SaintLagueLoop(keys, weights, seats, current, caps, [k \in SeqToSet(keys) |-> 0], s)

\* ------------------------------------------------------------------------
\* Rule table -> reglas_full_day (seats.py 424-438)
\* ------------------------------------------------------------------------
\* a row of parametros_df is [nm, valor]: criterio "Dia completo <nm>"
ValidRule(row) ==
    LET rule == parse_full_day_rule(row.valor)
    IN  rule.type # "none" /\ Len(rule.days) > 0

\* the rule table parsed whether or not the parameters are ignored
ReglasFullDay_Always(pdf, ignore) ==
    IF pdf = <<>> THEN <<>>
    ELSE LET valid == SelectSeq(pdf, ValidRule)
             keys  == {normalize_text(valid[i].nm) : i \in 1..Len(valid)}
         IN [k \in keys |->
               LET last == CHOOSE i \in 1..Len(valid) :
                              /\ normalize_text(valid[i].nm) = k
                              /\ \A j \in (i + 1)..Len(valid) : normalize_text(valid[j].nm) # k
               IN parse_full_day_rule(valid[last].valor)]

ReglasFullDay(pdf, ignore) ==
    IF ignore \/ pdf = <<>> THEN <<>>
    ELSE LET valid == SelectSeq(pdf, ValidRule)
             keys  == {normalize_text(valid[i].nm) : i \in 1..Len(valid)}
         IN [k \in keys |->
               LET last == CHOOSE i \in 1..Len(valid) :
                              /\ normalize_text(valid[i].nm) = k
                              /\ \A j \in (i + 1)..Len(valid) : normalize_text(valid[j].nm) # k
               IN parse_full_day_rule(valid[last].valor)]

NoRule == [type |-> "none", days |-> <<>>]

\* reglas_full_day.get(nm_norm)
ReglaGet(reglas, nm_norm) == IF nm_norm \in DOMAIN reglas THEN reglas[nm_norm] ELSE NoRule

\* ------------------------------------------------------------------------
\* Capacity table -> capacidad_pisos (seats.py 410-422); 0 stands for absent
\* ------------------------------------------------------------------------
CapacidadPisos(dfc, key) ==
    LET ok == SelectSeq(dfc, LAMBDA r : extract_clean_number_str(r.piso) = key /\ r.cap > 0)
    IN  IF ok = <<>> \/ key = <<>> THEN 0 ELSE ok[Len(ok)].cap

\* ------------------------------------------------------------------------
\* Roster of one floor -> equipos_info, per_map, min_map (seats.py 475-504)
\* ------------------------------------------------------------------------
InfoOfRow(r) ==
    LET per      == Max2(0, r.per)
        mini_raw == r.min
        mini     == IF per >= 2 THEN Max2(2, mini_raw) ELSE mini_raw
    IN  [eq |-> r.equipo, per |-> per, min |-> Min2(per, mini)]

RECURSIVE EquiposInfo(_)
EquiposInfo(df_piso) ==
    IF df_piso = <<>> THEN <<>>
    ELSE <<InfoOfRow(Head(df_piso))>> \o EquiposInfo(Tail(df_piso))

RECURSIVE KeysOf(_)
KeysOf(infos) == IF infos = <<>> THEN <<>> ELSE <<Head(infos).eq>> \o KeysOf(Tail(infos))

\* {info["eq"]: info[field]}: the last row of a team wins
LastInfo(infos, k) ==
    infos[CHOOSE i \in 1..Len(infos) :
            infos[i].eq = k /\ \A j \in (i + 1)..Len(infos) : infos[j].eq # k]

PerMap(infos) == [k \in SeqToSet(KeysOf(infos)) |-> LastInfo(infos, k).per]

MinMap(infos) == [k \in SeqToSet(KeysOf(infos)) |-> LastInfo(infos, k).min]

\* seats.py 464-473
CapTotalReal(df_piso, cap_explicit, reserva) ==
    LET raw == [i \in 1..Len(df_piso) |-> df_piso[i].per]
    IN  Max2(0, IF cap_explicit > 0 THEN cap_explicit ELSE SumSeq(raw) + reserva)

HardLimit(cap_total_real_, reserva) == Max2(0, cap_total_real_ - reserva)

\* seats.py 513-520: weekly_target = per * 5, split evenly over the week
RECURSIVE BaseSplit(_, _, _, _)
BaseSplit(keys, per_map_, alloc, s) ==
    IF keys = <<>> THEN [val |-> alloc, rng |-> s]
    ELSE LET eq    == Head(keys)
             split == even_week_split(per_map_[eq] * 5, dias_semana, s)
         IN BaseSplit(Tail(keys), per_map_,
                      [d \in DiasSet |-> [alloc[d] EXCEPT ![eq] = split.val[d]]], split.rng)

\* ------------------------------------------------------------------------
\* Full-day rules of one floor (seats.py 526-574)
\* ------------------------------------------------------------------------
RECURSIVE AddLoad(_, _, _)
AddLoad(load, days, per) ==
    IF days = <<>> THEN load
    ELSE AddLoad(IF Head(days) \in DiasSet THEN [load EXCEPT ![Head(days)] = @ + per] ELSE load,
                 Tail(days), per)

RECURSIVE FixedLoad(_, _, _)
FixedLoad(infos, reglas, load) ==
    IF infos = <<>> THEN load
    ELSE LET rule == ReglaGet(reglas, normalize_text(Head(infos).eq))
         IN FixedLoad(Tail(infos), reglas,
                      IF rule.type = "fixed" THEN AddLoad(load, rule.days, Head(infos).per)
                      ELSE load)

\* st = [load, assign, audit, rng]
RECURSIVE ResolveChoices(_, _, _, _, _, _)
ResolveChoices(infos, reglas, hard_limit_, mode, piso, st) ==
    IF infos = <<>> THEN st
    ELSE LET info == Head(infos)
             nm   == normalize_text(info.eq)
             rule == ReglaGet(reglas, nm)
             ch   == choose_flexible_day(rule.days, info.per, hard_limit_, st.load, mode, st.rng)
             st2  == IF rule.type # "choice" THEN st
                     ELSE IF ch.val = "" THEN [st EXCEPT !.rng = ch.rng]
                     ELSE [load   |-> [st.load EXCEPT ![ch.val] = @ + info.per],
                           assign |-> [k \in DOMAIN st.assign \cup {nm} |->
                                          IF k = nm THEN ch.val ELSE st.assign[k]],
                           audit  |-> Append(st.audit,
                                        [piso |-> piso, equipo |-> info.eq, rule |-> rule.days,
                                         chosen_day |-> ch.val, mode |-> mode]),
                           rng    |-> ch.rng]
         IN ResolveChoices(Tail(infos), reglas, hard_limit_, mode, piso, st2)

\* _apply_full_day_fixed
RECURSIVE apply_full_day_fixed(_, _, _, _)
apply_full_day_fixed(alloc, eq, per, fixed_days) ==
    IF fixed_days = <<>> THEN alloc
    ELSE LET day == Head(fixed_days)
         IN apply_full_day_fixed(
              IF day \in DiasSet THEN [alloc EXCEPT ![day][eq] = Max2(@, per)] ELSE alloc,
              eq, per, Tail(fixed_days))

\* _apply_full_day_choice
apply_full_day_choice(alloc, eq, per, chosen_day) ==
    IF chosen_day # "" /\ chosen_day \in DiasSet
    THEN [alloc EXCEPT ![chosen_day][eq] = Max2(@, per)]
    ELSE alloc

RECURSIVE ApplyFullDay(_, _, _, _)
ApplyFullDay(infos, reglas, assign, alloc) ==
    IF infos = <<>> THEN alloc
    ELSE LET info == Head(infos)
             nm   == normalize_text(info.eq)
             rule == ReglaGet(reglas, nm)
             a2   == IF rule.type = "fixed"
                     THEN apply_full_day_fixed(alloc, info.eq, info.per, rule.days)
                     ELSE IF rule.type = "choice"
                     THEN apply_full_day_choice(alloc, info.eq, info.per,
                                                IF nm \in DOMAIN assign THEN assign[nm] ELSE "")
                     ELSE alloc
         IN ApplyFullDay(Tail(infos), reglas, assign, a2)

\* _ensure_minimums_per_day
ensure_minimums_per_day(alloc, eq, per, mini) ==
    LET target == Min2(per, mini)
    IN  IF target <= 0 THEN alloc
        ELSE [d \in DiasSet |-> [alloc[d] EXCEPT ![eq] = IF @ < target THEN target ELSE @]]

RECURSIVE EnsureMinimums(_, _)
EnsureMinimums(infos, alloc) ==
    IF infos = <<>> THEN alloc
    ELSE EnsureMinimums(Tail(infos),
           ensure_minimums_per_day(alloc, Head(infos).eq, Head(infos).per, Head(infos).min))

\* ------------------------------------------------------------------------
\* _cap_day_and_collect_deficit (seats.py 255-307)
\* ------------------------------------------------------------------------
\* items = sorted(alloc_day.items(), key=value, reverse=True); items[0]:
\* the first key, in insertion order, that holds the largest value
TopKey(keys, alloc_day) ==
    keys[CHOOSE i \in 1..Len(keys) :
           /\ \A j \in 1..Len(keys) : alloc_day[keys[j]] <= alloc_day[keys[i]]
           /\ \A j \in 1..(i - 1) : alloc_day[keys[j]] < alloc_day[keys[i]]]

\* the while loop of the trim; the result carries the number of removals
RECURSIVE TrimLoop(_, _, _, _)
TrimLoop(keys, alloc_day, exceso, removed) ==
    IF exceso <= 0 \/ keys = <<>> THEN [val |-> alloc_day, removed |-> removed]
    ELSE LET k == TopKey(keys, alloc_day)
         IN  IF alloc_day[k] <= 0 THEN [val |-> alloc_day, removed |-> removed]
             ELSE CHOOSE r \in {TrimLoop(keys, nxt, exceso - 1, removed + 1) :
                                  nxt \in {[alloc_day EXCEPT ![k] = @ - 1]}} : TRUE

\* a day that is never trimmed
CapDay_NoTrim(keys, alloc_day, hard_limit_) == [val |-> alloc_day, removed |-> 0]

CapDay(keys, alloc_day, hard_limit_) ==
    LET total == SumOver(keys, alloc_day)
    IN  IF total > hard_limit_ THEN TrimLoop(keys, alloc_day, total - hard_limit_, 0)
        ELSE [val |-> alloc_day, removed |-> 0]

\* the deficit value the engine records for a team/day
DeficitValue(per, mini, asig) == Max2(0, per - asig)

RECURSIVE DeficitDay(_, _, _, _, _, _)
DeficitDay(keys, per_map_, min_map_, alloc_day, piso, day) ==
    IF keys = <<>> THEN <<>>
    ELSE LET eq      == Head(keys)
             per     == per_map_[eq]
             asig    == alloc_day[eq]
             deficit == DeficitValue(per, min_map_[eq], asig)
             rest    == DeficitDay(Tail(keys), per_map_, min_map_, alloc_day, piso, day)
         IN  IF per > 0 /\ deficit > 0
             THEN <<[piso |-> piso, equipo |-> eq, dia |-> day, dotacion |-> per,
                     minimo |-> min_map_[eq], asignado |-> asig, deficit |-> deficit]>> \o rest
             ELSE rest

\* st = [alloc, recortes, deficit]; the trimmed day cd and the state after the
\* day are each bound once, as the loop body computes them once
RECURSIVE cap_day_and_collect_deficit(_, _, _, _, _, _, _, _)
cap_day_and_collect_deficit(days, keys, per_map_, min_map_, hard_limit_, ignore, piso, st) ==
    IF days = <<>> THEN st
    ELSE LET day == Head(days)
             df(cd) == IF ignore THEN <<>>
                       ELSE DeficitDay(keys, per_map_, min_map_, cd.val, piso, day)
             after(cd) == [alloc    |-> [st.alloc EXCEPT ![day] = cd.val],
                           recortes |-> st.recortes + cd.removed,
                           deficit  |-> st.deficit \o df(cd)]
         IN CHOOSE r \in {cap_day_and_collect_deficit(Tail(days), keys, per_map_, min_map_,
                                                     hard_limit_, ignore, piso, nxt) :
                             nxt \in {after(cd) :
                                        cd \in {CapDay(keys, st.alloc[day], hard_limit_)}}} : TRUE

\* ------------------------------------------------------------------------
\* _fill_remaining_by_day_saint_lague (seats.py 310-342)
\* ------------------------------------------------------------------------
RECURSIVE fill_remaining_by_day_saint_lague(_, _, _, _, _, _)
fill_remaining_by_day_saint_lague(days, keys, per_map_, hard_limit_, alloc, s) ==
    IF days = <<>> THEN [val |-> alloc, rng |-> s]
    ELSE LET day       == Head(days)
             alloc_day == alloc[day]
             rem       == Max2(0, hard_limit_ - SumOver(keys, alloc_day))
             remaining == [k \in SeqToSet(keys) |-> Max2(0, per_map_[k] - alloc_day[k])]
             extra     == saint_lague_allocate(keys, remaining, rem, alloc_day, remaining, s)
         IN  IF rem <= 0
             THEN fill_remaining_by_day_saint_lague(Tail(days), keys, per_map_, hard_limit_,
                                                    alloc, s)
             ELSE fill_remaining_by_day_saint_lague(Tail(days), keys, per_map_, hard_limit_,
                    [alloc EXCEPT ![day] = [k \in SeqToSet(keys) |-> alloc_day[k] + extra.val[k]]],
                    extra.rng)

\* ------------------------------------------------------------------------
\* Rows, weekly summary and score terms of one floor (seats.py 615-694)
\* ------------------------------------------------------------------------
RECURSIVE TeamRows(_, _, _, _, _, _)
TeamRows(keys, per_map_, alloc_day, hard_limit_, piso, dia) ==
    IF keys = <<>> THEN <<>>
    ELSE LET eq   == Head(keys)
             asig == alloc_day[eq]
             rest == TeamRows(Tail(keys), per_map_, alloc_day, hard_limit_, piso, dia)
         IN  IF asig <= 0 THEN rest
             ELSE <<[piso |-> piso, equipo |-> eq, dia |-> dia, dotacion |-> per_map_[eq],
                     cupos |-> asig,
                     uso_diario |-> IF hard_limit_ > 0 THEN Round2H(asig * 100, hard_limit_)
                                    ELSE 0,
                     uso_semanal |-> None]>> \o rest

\* the pool never reduced, whatever the capacity of the floor
CuposLibres_Fixed(cap_total_real_, reserva) == reserva

\* seats.py 650
CuposLibres(cap_total_real_, reserva) ==
    IF cap_total_real_ >= reserva THEN reserva ELSE cap_total_real_

LibresRow(piso, dia, cap_total_real_, reserva) ==
    [piso |-> piso, equipo |-> "Cupos libres", dia |-> dia, dotacion |-> None,
     cupos |-> CuposLibres(cap_total_real_, reserva), uso_diario |-> None,
     uso_semanal |-> None]

RECURSIVE FloorRows(_, _, _, _, _, _, _, _)
FloorRows(days, keys, per_map_, alloc, hard_limit_, cap_total_real_, reserva, piso) ==
    IF days = <<>> THEN <<>>
    ELSE TeamRows(keys, per_map_, alloc[Head(days)], hard_limit_, piso, Head(days))
         \o <<LibresRow(piso, Head(days), cap_total_real_, reserva)>>
         \o FloorRows(Tail(days), keys, per_map_, alloc, hard_limit_, cap_total_real_,
                      reserva, piso)

WeeklyAssigned(alloc, eq) == SumSeq([i \in 1..Len(dias_semana) |-> alloc[dias_semana[i]][eq]])

WeeklyUsage(per_map_, alloc, eq) ==
    IF per_map_[eq] > 0 THEN Round2H(WeeklyAssigned(alloc, eq) * 100, per_map_[eq] * 5) ELSE 0

\* round_half_up(weekly_total / 5), an integer
RoundHalfUp5(wk) == (2 * wk + 5) \div 10

\* the average rounded half-up to an integer instead of to two decimals
AvgDaily_HalfUp(wk_cupos) == 100 * RoundHalfUp5(wk_cupos)

\* seats.py 679: avg_daily = round(wk_cupos / 5.0, 2), in hundredths
AvgDaily(wk_cupos) == Round2H(wk_cupos, 5)

\* seats.py 667-673: every row of this piso gets the weekly usage of its team
SetWeeklyUsage(rows_, keys, per_map_, alloc, piso) ==
    [i \in 1..Len(rows_) |->
        IF rows_[i].piso # piso \/ rows_[i].equipo = "Cupos libres" THEN rows_[i]
        ELSE [rows_[i] EXCEPT !.uso_semanal =
                 IF rows_[i].equipo \in SeqToSet(keys)
                 THEN WeeklyUsage(per_map_, alloc, rows_[i].equipo) ELSE 0]]

RECURSIVE WeeklySummary(_, _, _, _)
WeeklySummary(keys, per_map_, alloc, piso) ==
    IF keys = <<>> THEN <<>>
    ELSE LET eq == Head(keys)
         IN <<[piso |-> piso, equipo |-> eq, dotacion |-> per_map_[eq],
               cupos_semana |-> WeeklyAssigned(alloc, eq),
               cupos_promedio_diario |-> AvgDaily(WeeklyAssigned(alloc, eq)),
               uso_semanal |-> WeeklyUsage(per_map_, alloc, eq)]>>
            \o WeeklySummary(Tail(keys), per_map_, alloc, piso)

\* seats.py 621-630: squared error against the proportional target, summed over
\* the teams with per > 0 and the five days, as a rational
SqErrorFloor(keys, per_map_, alloc, hard_limit_) ==
    LET sum_per == SumOver(keys, per_map_)
        pos     == SelectSeq(keys, LAMBDA k : per_map_[k] > 0)
        term(k, d) == (alloc[d][k] * sum_per - per_map_[k] * hard_limit_)
                      * (alloc[d][k] * sum_per - per_map_[k] * hard_limit_)
        perDay(d)  == SumSeq([i \in 1..Len(pos) |-> term(pos[i], d)])
    IN  IF sum_per > 0 /\ hard_limit_ > 0
        THEN [err |-> RatNorm(SumSeq([i \in 1..Len(dias_semana) |-> perDay(dias_semana[i])]),
                              sum_per * sum_per),
              n   |-> 5 * Len(pos)]
        ELSE [err |-> <<0, 1>>, n |-> 0]

\* seats.py 690-694: the deficits of every record carrying this piso
DeficitOfPiso(report, piso) ==
    SumSeq([i \in 1..Len(report) |-> IF report[i].piso = piso THEN report[i].deficit ELSE 0])

\* seats.py 696-707; the score 1e18 of the early returns is Inf
Inf == <<1, 0>>

ScoreObj(sq, n_eval_, total_deficit_, recortes) ==
    LET mse == RatNorm(sq[1], sq[2] * Max2(1, n_eval_))
    IN [score |-> RatAdd(mse, <<total_deficit_ * 50 + recortes * 200, 1>>),
        mse_proporcion |-> mse, total_deficit |-> total_deficit_,
        recortes_full_day |-> recortes, n_eval |-> n_eval_]

\* ------------------------------------------------------------------------
\* State
\* ------------------------------------------------------------------------
VARIABLES
    df_equipos,        \* the caller's roster table: rows [piso, equipo, per, min]
    columns,           \* the column names of the roster table, normalized
    df_parametros,     \* the caller's rule table: rows [nm, valor]
    df_capacidades,    \* the capacity table: rows [piso, cap]
    reserva_in,        \* the configured reserve
    ignore_params,
    seed_in,           \* the caller's seed
    variant_mode,
    todo,              \* calls of the entry point still to be made
    pc,                \* position in compute_distribution_from_excel
    equipos_df,        \* arguments of the running engine call
    cupos_reserva,
    variant_seed,
    rng,               \* state of the random generator in use
    reglas_full_day,
    idx,               \* position of the floor loop in pisos_unicos
    piso_str,
    cap_total_real,
    hard_limit,
    equipos_info,
    day_alloc,
    rows,
    deficit_report,
    full_day_choices,
    weekly_summary,
    total_sq_error,
    total_deficit,
    total_recortes_full_day,
    n_eval,
    results,           \* what the finished engine calls returned, in call order
    caller,            \* the entry point in use: "none" is the engine itself
    returned,          \* what the calling entry point returned
    fn_args,           \* arguments of a direct call of a helper function
    fn_trace,          \* the values of the helper's accumulator, one per iteration
    fn_ret,            \* what the helper returned
    reservations,      \* the rows of the "reservations" worksheet, in append order
    list_cache,        \* st.cache_data of list_reservations_df: <<>> or <<rows>>
    session            \* each browser session: position in the booking screen and its locals

inputVars == <<df_equipos, columns, df_parametros, df_capacidades, reserva_in, ignore_params,
               seed_in, variant_mode, caller>>

argVars == <<equipos_df, cupos_reserva, variant_seed, reglas_full_day>>

floorVars == <<piso_str, cap_total_real, hard_limit, equipos_info, day_alloc>>

outVars == <<rows, deficit_report, full_day_choices, weekly_summary, total_sq_error,
             total_deficit, total_recortes_full_day, n_eval>>

fnVars == <<fn_args, fn_trace, fn_ret>>

bookVars == <<reservations, list_cache, session>>

engineVars == <<inputVars, fnVars, todo, pc, argVars, rng, idx, floorVars, outVars, results,
                returned>>

vars == <<engineVars, bookVars>>

\* ------------------------------------------------------------------------
\* Inputs of the model
\* ------------------------------------------------------------------------
L3 == <<"3">>

LPiso3 == <<"P", "i", "s", "o", " ", "3">>

L4 == <<"4">>

Equipos == {"A", "B"}

\* raw headcount and raw minimum of a roster row
PerMinPairs == {pm \in (0..MaxPer) \X {0, MaxPer} : pm[2] = 0 \/ pm[1] = MaxPer}

FirstRows == {[piso |-> L3, equipo |-> "A", per |-> pm[1], min |-> pm[2]] : pm \in PerMinPairs}

OtherRows ==
    {[piso |-> l, equipo |-> e, per |-> pm[1], min |-> pm[2]] :
        l \in {L3, LPiso3, L4}, e \in Equipos, pm \in PerMinPairs}

Rosters ==
    {<<>>} \cup {<<r>> : r \in FirstRows} \cup {<<r1, r2>> : r1 \in FirstRows, r2 \in OtherRows}

CapTables == {<<>>} \cup {<<[piso |-> LPiso3, cap |-> c]>> : c \in {1, 5}}

Reserves == {0, 2}

RuleTexts == {<<>>, <<"Lunes">>, <<"Lunes", "o", "Martes">>}

ParamTables ==
    {SelectSeq(<<[nm |-> "A", valor |-> ta], [nm |-> "B", valor |-> tb]>>,
               LAMBDA r : r.valor # <<>>) :
        ta \in RuleTexts, tb \in {<<>>, <<"Lunes">>}}

Modes == {"holgura", "equilibrar", "aleatorio"}

Seeds == 0..MaxSeed

\* the column names a complete roster carries
RequiredColumns == {"piso", "equipo", "personas", "minimo"}

\* a complete header, or a header lacking one of the required columns
ColumnSets == {RequiredColumns} \cup {RequiredColumns \ {c} : c \in RequiredColumns}

\* seats.py 400-407: col_piso and col_equipo and col_personas and col_minimos
HasKeyColumns(cols) ==
    /\ "piso" \in cols
    /\ "equipo" \in cols
    /\ cols \cap {"personas", "dotacion", "total"} # {}
    /\ "minimo" \in cols

\* the browser sessions of the booking screen
Sessions == {"s1", "s2"}

\* nobody uses the booking screen: the worksheet is empty and never read
NoSession ==
    /\ reservations = <<>>
    /\ list_cache = <<>>
    /\ session = [s \in Sessions |-> [pc |-> "closed"]]

\* no helper function is called directly
NoHelperCall ==
    /\ fn_args = <<>>
    /\ fn_trace = <<>>
    /\ fn_ret = <<>>

HasChoice(pdf) == \E i \in 1..Len(pdf) : parse_full_day_rule(pdf[i].valor).type = "choice"

EmptyAlloc == [d \in DiasSet |-> <<>>]

InitInputs ==
    /\ df_equipos \in Rosters
    /\ df_parametros \in ParamTables
    /\ df_capacidades \in CapTables
    /\ reserva_in \in Reserves
    /\ ignore_params \in BOOLEAN
    /\ seed_in \in Seeds
    /\ variant_mode \in Modes
    /\ (HasChoice(df_parametros) /\ ~ignore_params) \/ (seed_in = 0 /\ variant_mode = "holgura")
    /\ columns \in ColumnSets
    /\ (df_parametros = <<>> /\ df_capacidades = <<>>) \/ columns = RequiredColumns

InitEngine ==
    /\ pc = "idle"
    /\ equipos_df = <<>>
    /\ cupos_reserva = 0
    /\ variant_seed = 0
    /\ rng = 0
    /\ reglas_full_day = <<>>
    /\ idx = 0
    /\ piso_str = <<>>
    /\ cap_total_real = 0
    /\ hard_limit = 0
    /\ equipos_info = <<>>
    /\ day_alloc = EmptyAlloc
    /\ rows = <<>>
    /\ deficit_report = <<>>
    /\ full_day_choices = <<>>
    /\ weekly_summary = <<>>
    /\ total_sq_error = <<0, 1>>
    /\ total_deficit = 0
    /\ total_recortes_full_day = 0
    /\ n_eval = 0
    /\ results = <<>>
    /\ returned = <<>>

Init ==
    /\ InitInputs
    /\ InitEngine
    /\ NoSession
    /\ NoHelperCall
    /\ caller = "none"
    /\ todo = 1

\* ------------------------------------------------------------------------
\* compute_distribution_from_excel, one action per phase
\* ------------------------------------------------------------------------
\* pisos_unicos = equipos_df[col_piso].dropna().unique()
PisosUnicos(df) == Dedup([i \in 1..Len(df) |-> df[i].piso], <<>>)

DfPiso(df, piso_raw) == SelectSeq(df, LAMBDA r : r.piso = piso_raw)

Keys == Dedup(KeysOf(equipos_info), <<>>)

per_map == PerMap(equipos_info)

min_map == MinMap(equipos_info)

RulesApply == ~ignore_params /\ DOMAIN reglas_full_day # {}

\* seats.py 370-446: entry of the engine with the given arguments
EngineEntry(df, reserva, seed) ==
    /\ equipos_df' = df
    /\ cupos_reserva' = reserva
    /\ variant_seed' = seed
    /\ rng' = RngSeed(seed, rng)
    /\ reglas_full_day' = ReglasFullDay(df_parametros, ignore_params)
    /\ idx' = 1
    /\ rows' = <<>>
    /\ deficit_report' = <<>>
    /\ full_day_choices' = <<>>
    /\ weekly_summary' = <<>>
    /\ total_sq_error' = <<0, 1>>
    /\ total_deficit' = 0
    /\ total_recortes_full_day' = 0
    /\ n_eval' = 0
    /\ pc' = IF df = <<>> THEN "empty"
             ELSE IF ~HasKeyColumns(columns) THEN "nocols" ELSE "loop"
    /\ UNCHANGED <<bookVars, inputVars, fnVars, floorVars, results, returned>>

\* a direct call of compute_distribution_from_excel
CallEngine ==
    /\ pc = "idle"
    /\ caller = "none"
    /\ todo > 0
    /\ todo' = todo - 1
    /\ EngineEntry(df_equipos, reserva_in, seed_in)

\* seats.py 375-380: the audit dict, with the only keys it ever has
Audit ==
    [variant_seed |-> variant_seed, variant_mode |-> variant_mode,
     full_day_choices |-> full_day_choices, weekly_summary |-> weekly_summary]

Result(score) ==
    [rows |-> rows, deficit_report |-> deficit_report, audit |-> Audit, score |-> score]

\* where control goes when the engine returns
AfterEngine == IF caller \in {"proposal", "balanced"} THEN "proposal_ret" ELSE "idle"

\* seats.py 382-383
ReturnEmpty ==
    /\ pc = "empty"
    /\ results' = Append(results, Result([score |-> Inf]))
    /\ pc' = AfterEngine
    /\ UNCHANGED <<bookVars, inputVars, fnVars, todo, argVars, rng, idx, floorVars, outVars, returned>>

\* seats.py 407-408: a key column is missing; the engine returns normally
ReturnMissingColumns ==
    /\ pc = "nocols"
    /\ results' = Append(results, Result([score |-> Inf, error |-> "Faltan columnas clave"]))
    /\ pc' = AfterEngine
    /\ UNCHANGED <<bookVars, inputVars, fnVars, todo, argVars, rng, idx, floorVars, outVars, returned>>

\* seats.py 455-520: next floor of the loop, its capacity, teams and base split
FloorBegin ==
    /\ pc = "loop"
    /\ idx <= Len(PisosUnicos(equipos_df))
    /\ LET piso_raw == PisosUnicos(equipos_df)[idx]
           piso     == extract_clean_number_str(piso_raw)
           df_piso  == DfPiso(equipos_df, piso_raw)
           infos    == EquiposInfo(df_piso)
           keys     == Dedup(KeysOf(infos), <<>>)
           cap      == CapTotalReal(df_piso, CapacidadPisos(df_capacidades, piso), cupos_reserva)
           split    == BaseSplit(keys, PerMap(infos),
                                 [d \in DiasSet |-> [k \in SeqToSet(keys) |-> 0]], rng)
       IN  IF piso = <<>> \/ infos = <<>>
           THEN /\ idx' = idx + 1
                /\ UNCHANGED <<pc, rng, floorVars>>
           ELSE /\ piso_str' = piso
                /\ cap_total_real' = cap
                /\ hard_limit' = HardLimit(cap, cupos_reserva)
                /\ equipos_info' = infos
                /\ day_alloc' = split.val
                /\ rng' = split.rng
                /\ pc' = "fullday"
                /\ UNCHANGED idx
    /\ UNCHANGED <<bookVars, inputVars, fnVars, todo, argVars, outVars, results, returned>>

\* seats.py 525-574: full-day rules, choice resolution first
FullDayRules ==
    /\ pc = "fullday"
    /\ LET load0 == FixedLoad(equipos_info, reglas_full_day, [d \in DiasSet |-> 0])
           st    == ResolveChoices(equipos_info, reglas_full_day, hard_limit, variant_mode,
                                   piso_str,
                                   [load |-> load0, assign |-> <<>>, audit |-> <<>>, rng |-> rng])
       IN  IF RulesApply
           THEN /\ day_alloc' = ApplyFullDay(equipos_info, reglas_full_day, st.assign, day_alloc)
                /\ full_day_choices' = full_day_choices \o st.audit
                /\ rng' = st.rng
           ELSE UNCHANGED <<day_alloc, full_day_choices, rng>>
    /\ pc' = "minimos"
    /\ UNCHANGED <<bookVars, inputVars, fnVars, todo, argVars, idx, piso_str, cap_total_real, hard_limit,
                   equipos_info, rows, deficit_report, weekly_summary, total_sq_error,
                   total_deficit, total_recortes_full_day, n_eval, results, returned>>

\* seats.py 576-578: daily minimums, applied only together with the rules
Minimums ==
    /\ pc = "minimos"
    /\ day_alloc' = IF RulesApply THEN EnsureMinimums(equipos_info, day_alloc) ELSE day_alloc
    /\ pc' = "cap"
    /\ UNCHANGED <<bookVars, inputVars, fnVars, todo, argVars, rng, idx, piso_str, cap_total_real, hard_limit,
                   equipos_info, outVars, results, returned>>

\* seats.py 583-597: trim to the daily limit and report the deficits
CapAndDeficit ==
    /\ pc = "cap"
    /\ \E st \in {cap_day_and_collect_deficit(dias_semana, Keys, per_map, min_map, hard_limit,
                    ignore_params, piso_str,
                    [alloc |-> day_alloc, recortes |-> 0, deficit |-> <<>>])} :
           /\ day_alloc' = st.alloc
           /\ deficit_report' = deficit_report \o st.deficit
           /\ total_recortes_full_day' = total_recortes_full_day + st.recortes
    /\ pc' = "fill"
    /\ UNCHANGED <<bookVars, inputVars, fnVars, todo, argVars, rng, idx, piso_str, cap_total_real, hard_limit,
                   equipos_info, rows, full_day_choices, weekly_summary, total_sq_error,
                   total_deficit, n_eval, results, returned>>

\* seats.py 604-610
Fill ==
    /\ pc = "fill"
    /\ LET f == fill_remaining_by_day_saint_lague(dias_semana, Keys, per_map, hard_limit,
                                                  day_alloc, rng)
       IN  /\ day_alloc' = f.val
           /\ rng' = f.rng
    /\ pc' = "build"
    /\ UNCHANGED <<bookVars, inputVars, fnVars, todo, argVars, idx, piso_str, cap_total_real, hard_limit,
                   equipos_info, outVars, results, returned>>

\* seats.py 615-694: rows, weekly usage, summary and score terms of the floor
BuildRows ==
    /\ pc = "build"
    /\ \E sq  \in {SqErrorFloor(Keys, per_map, day_alloc, hard_limit)},
          new \in {FloorRows(dias_semana, Keys, per_map, day_alloc, hard_limit, cap_total_real,
                             cupos_reserva, piso_str)} :
           /\ rows' = SetWeeklyUsage(rows \o new, Keys, per_map, day_alloc, piso_str)
           /\ weekly_summary' = weekly_summary \o WeeklySummary(Keys, per_map, day_alloc, piso_str)
           /\ total_sq_error' = RatAdd(total_sq_error, sq.err)
           /\ n_eval' = n_eval + sq.n
           /\ total_deficit' = IF ~ignore_params /\ deficit_report # <<>>
                               THEN total_deficit + DeficitOfPiso(deficit_report, piso_str)
                               ELSE total_deficit
    /\ idx' = idx + 1
    /\ pc' = "loop"
    /\ UNCHANGED <<bookVars, inputVars, fnVars, todo, argVars, rng, floorVars, deficit_report, full_day_choices,
                   total_recortes_full_day, results, returned>>

\* seats.py 696-709: the score and the return
Finish ==
    /\ pc = "loop"
    /\ idx > Len(PisosUnicos(equipos_df))
    /\ results' = Append(results,
                    Result(ScoreObj(total_sq_error, n_eval, total_deficit,
                                    total_recortes_full_day)))
    /\ pc' = AfterEngine
    /\ UNCHANGED <<bookVars, inputVars, fnVars, todo, argVars, rng, idx, floorVars, outVars, returned>>

EngineStep ==
    \/ ReturnEmpty
    \/ ReturnMissingColumns
    \/ FloorBegin
    \/ FullDayRules
    \/ Minimums
    \/ CapAndDeficit
    \/ Fill
    \/ BuildRows
    \/ Finish

Next == CallEngine \/ EngineStep

Spec == Init /\ [][Next]_vars

\* two calls of the engine with the same arguments
InitTwice ==
    /\ InitInputs
    /\ reserva_in = 2
    /\ ~ignore_params
    /\ InitEngine
    /\ NoSession
    /\ NoHelperCall
    /\ caller = "none"
    /\ todo = 2

SpecTwice == InitTwice /\ [][Next]_vars

\* calls of the engine on floors without a capacity row, the raw headcounts
\* of the roster including negative ones
RawRows ==
    {[piso |-> l, equipo |-> e, per |-> n, min |-> 0] :
        l \in {L3, L4}, e \in Equipos, n \in (-1)..MaxPer}

RawRosters ==
    {<<>>} \cup {<<r>> : r \in RawRows} \cup {<<r1, r2>> : r1 \in RawRows, r2 \in RawRows}

InitInferred ==
    /\ df_equipos \in RawRosters
    /\ columns \in ColumnSets
    /\ df_parametros \in {<<>>, <<[nm |-> "A", valor |-> <<"Lunes">>]>>}
    /\ (df_parametros = <<>>) \/ columns = RequiredColumns
    /\ df_capacidades = <<>>
    /\ reserva_in \in Reserves
    /\ ignore_params \in BOOLEAN
    /\ seed_in = 0
    /\ variant_mode = "holgura"
    /\ InitEngine
    /\ NoSession
    /\ NoHelperCall
    /\ caller = "none"
    /\ todo = 1

SpecInferred == InitInferred /\ [][Next]_vars

\* ------------------------------------------------------------------------
\* get_distribution_proposal (app.py 1202-1252), default strategy "random"
\* ------------------------------------------------------------------------
CUPOS_LIBRES_FIJOS == 2

\* the orders eq_proc.sample(frac=1) can produce: the draw comes from the
\* global generator, which no argument of the call seeds
SampleFrac1(df) ==
    {[i \in 1..Len(df) |-> df[f[i]]] :
        f \in {g \in [1..Len(df) -> 1..Len(df)] :
                 \A i, j \in 1..Len(df) : g[i] = g[j] => i = j}}

\* filter_minimum_deficits (app.py 1320-1337)
RECURSIVE filter_minimum_deficits(_)
filter_minimum_deficits(deficit_list) ==
    IF deficit_list = <<>> THEN <<>>
    ELSE LET item        == Head(deficit_list)
             deficit_val == Max2(0, item.minimo - item.asignado)
             rest        == filter_minimum_deficits(Tail(deficit_list))
         IN  IF deficit_val > 0 THEN <<[item EXCEPT !.deficit = deficit_val]>> \o rest
             ELSE rest

CallProposal ==
    /\ pc = "idle"
    /\ caller = "proposal"
    /\ todo > 0
    /\ todo' = todo - 1
    /\ \E eq_proc \in SampleFrac1(df_equipos) :
          EngineEntry(eq_proc, CUPOS_LIBRES_FIJOS, seed_in)

\* app.py 1246-1252: the 4-tuple the proposal returns
ProposalResult ==
    LET r == results[Len(results)]
    IN  [r EXCEPT !.deficit_report =
            IF ignore_params THEN <<>> ELSE filter_minimum_deficits(r.deficit_report)]

\* return of get_distribution_proposal; generate_balanced_distribution
\* receives the value at app.py 1303
ProposalReturn ==
    /\ pc = "proposal_ret"
    /\ returned' = IF caller = "proposal" THEN Append(returned, ProposalResult) ELSE returned
    /\ pc' = IF caller = "proposal" THEN "idle" ELSE "unpack"
    /\ UNCHANGED <<bookVars, inputVars, fnVars, todo, argVars, rng, idx, floorVars, outVars, results>>

InitProposal ==
    /\ df_equipos \in {r \in Rosters : \A i, j \in 1..Len(r) : r[i].equipo = r[j].equipo => i = j}
    /\ columns \in ColumnSets
    /\ (df_parametros = <<>> /\ df_capacidades = <<>>) \/ columns = RequiredColumns
    /\ df_parametros \in {<<>>, <<[nm |-> "A", valor |-> <<"Lunes">>]>>}
    /\ df_capacidades \in CapTables
    /\ reserva_in = CUPOS_LIBRES_FIJOS
    /\ ignore_params \in BOOLEAN
    /\ seed_in = 0
    /\ variant_mode = "holgura"
    /\ InitEngine
    /\ NoSession
    /\ NoHelperCall
    /\ caller = "proposal"
    /\ todo = 2

NextProposal == CallProposal \/ EngineStep \/ ProposalReturn

SpecProposal == InitProposal /\ [][NextProposal]_vars

\* ------------------------------------------------------------------------
\* compute_distribution_variants (seats.py 712-744)
\* ------------------------------------------------------------------------
MaxVariants == 2

\* the number of trials: max(1, int(n_variants)), counted down in todo
Trials(n_variants) == Max2(1, n_variants)

CallVariant ==
    /\ pc = "idle"
    /\ caller = "variants"
    /\ todo > 0
    /\ todo' = todo - 1
    /\ EngineEntry(df_equipos, reserva_in, seed_in + Len(results))

Variant(r) ==
    [seed |-> r.audit.variant_seed, mode |-> r.audit.variant_mode, rows |-> r.rows,
     deficit_report |-> r.deficit_report, audit |-> r.audit, score |-> r.score]

\* variants.sort(key=score): stable insertion into the sorted prefix
RECURSIVE InsertByScore(_, _)
InsertByScore(sorted, v) ==
    IF sorted = <<>> THEN <<v>>
    ELSE IF RatLess(v.score.score, Head(sorted).score.score) THEN <<v>> \o sorted
    ELSE <<Head(sorted)>> \o InsertByScore(Tail(sorted), v)

RECURSIVE SortByScore(_, _)
SortByScore(vs, acc) ==
    IF vs = <<>> THEN acc ELSE SortByScore(Tail(vs), InsertByScore(acc, Variant(Head(vs))))

\* seats.py 743-744
VariantsReturn ==
    /\ pc = "idle"
    /\ caller = "variants"
    /\ todo = 0
    /\ returned' = SortByScore(results, <<>>)
    /\ pc' = "returned"
    /\ UNCHANGED <<bookVars, inputVars, fnVars, todo, argVars, rng, idx, floorVars, outVars, results>>

\* ------------------------------------------------------------------------
\* generate_balanced_distribution, ignore_params=False (app.py 1299-1318)
\* ------------------------------------------------------------------------
AttemptStride == 9973

\* df_eq.sample(frac=1, random_state=attempt_seed)
SeededSample(df, attempt_seed) == RngShuffle(df, RngSeed(attempt_seed, 0)).val

\* one trial: the shuffled roster goes to get_distribution_proposal, which
\* is given no seed and no mode (variant_seed=None, variant_mode="holgura")
BalancedAttempt ==
    /\ pc = "idle"
    /\ caller = "balanced"
    /\ todo > 0
    /\ todo' = todo - 1
    /\ \E eq_proc \in SampleFrac1(SeededSample(df_equipos, seed_in + Len(results) * AttemptStride)) :
          EngineEntry(eq_proc, CUPOS_LIBRES_FIJOS, 0)

\* app.py 1303: "rows, deficit = get_distribution_proposal(...)" unpacks the
\* four returned values into two names: ValueError
BalancedUnpack ==
    /\ pc = "unpack"
    /\ pc' = "raised"
    /\ UNCHANGED <<bookVars, inputVars, fnVars, todo, argVars, rng, idx, floorVars, outVars, results, returned>>

\* app.py 1318 with no trial made: (None, None, None)
BalancedReturn ==
    /\ pc = "idle"
    /\ caller = "balanced"
    /\ todo = 0
    /\ pc' = "returned"
    /\ UNCHANGED <<bookVars, inputVars, fnVars, todo, argVars, rng, idx, floorVars, outVars, results, returned>>

InitOptimizer ==
    /\ df_equipos \in Rosters
    /\ columns \in ColumnSets
    /\ (df_parametros = <<>> /\ df_capacidades = <<>>) \/ columns = RequiredColumns
    /\ df_parametros \in {<<>>, <<[nm |-> "A", valor |-> <<"Lunes", "o", "Martes">>]>>}
    /\ df_capacidades \in CapTables
    /\ reserva_in = CUPOS_LIBRES_FIJOS
    /\ ignore_params = FALSE
    /\ seed_in \in Seeds
    /\ variant_mode = "holgura"
    /\ InitEngine
    /\ NoSession
    /\ NoHelperCall
    /\ caller \in {"variants", "balanced"}
    /\ \E n \in 0..MaxVariants : todo = IF caller = "variants" THEN Trials(n) ELSE n

NextOptimizer ==
    \/ CallVariant
    \/ VariantsReturn
    \/ BalancedAttempt
    \/ ProposalReturn
    \/ BalancedUnpack
    \/ BalancedReturn
    \/ EngineStep

SpecOptimizer == InitOptimizer /\ [][NextOptimizer]_vars

\* ------------------------------------------------------------------------
\* Properties of the engine
\* ------------------------------------------------------------------------
\* every team of the floor pass is listed once in the roster of the floor
OncePerTeam == Len(Keys) = Len(equipos_info)

InFloor == pc \in {"fullday", "minimos", "cap", "fill", "build"}

IsTeamRow(r) == r.equipo # "Cupos libres"

\* sum of 'cupos' over the rows (team rows and 'Cupos libres') of a piso/day
CuposOf(rws, piso, dia) ==
    SumSeq([i \in 1..Len(rws) |->
              IF rws[i].piso = piso /\ rws[i].dia = dia THEN rws[i].cupos ELSE 0])

\* total capacity of a normalized floor: its capacity row, else the sum of the
\* headcounts of its teams plus the reserve
FloorCapacity(piso) ==
    LET of_floor == SelectSeq(equipos_df, LAMBDA r : extract_clean_number_str(r.piso) = piso)
        explicit == CapacidadPisos(df_capacidades, piso)
    IN  IF explicit > 0 THEN explicit
        ELSE SumSeq([i \in 1..Len(of_floor) |-> Max2(0, of_floor[i].per)]) + cupos_reserva

PisosOf(rws) == {rws[i].piso : i \in 1..Len(rws)}

\* C1: in every returned result, for every normalized floor and weekday, the
\* seats of the team rows plus the 'Cupos libres' seats of that floor/day are
\* at most the floor's total capacity.
C1_CapacityInvariant ==
    \A n \in 1..Len(results) : \A p \in PisosOf(results[n].rows) : \A d \in DiasSet :
        CuposOf(results[n].rows, p, d) <= FloorCapacity(p)

\* C2: on a floor/day whose minimums fit into the usable capacity, the final
\* allocation gives every team at least min(headcount, minimum) (stated for
\* floors whose teams are each listed once, where the minimum is unambiguous).
C2_MinimumWhenFeasible ==
    (pc = "build" /\ OncePerTeam /\ SumOver(Keys, min_map) <= hard_limit)
        => \A d \in DiasSet : \A k \in SeqToSet(Keys) :
              day_alloc[d][k] >= Min2(per_map[k], min_map[k])

\* the team has a full-day rule that makes day d a full day on this floor
FullDayOn(k, d) ==
    LET rule == ReglaGet(reglas_full_day, normalize_text(k))
    IN  \/ rule.type = "fixed" /\ InSeq(d, rule.days)
        \/ /\ rule.type = "choice"
           /\ \E i \in 1..Len(full_day_choices) :
                 /\ full_day_choices[i].piso = piso_str
                 /\ full_day_choices[i].equipo = k
                 /\ full_day_choices[i].chosen_day = d

\* C3: a team with a fixed full-day rule on day d, whose headcount fits into
\* the usable capacity and which is the only full-day team of the floor on d,
\* ends the floor pass with its full headcount on d (stated for floors whose
\* teams are each listed once, where the headcount is unambiguous).
C3_FullDayHonored ==
    (pc = "build" /\ OncePerTeam) => \A d \in DiasSet : \A k \in SeqToSet(Keys) :
        ( /\ ReglaGet(reglas_full_day, normalize_text(k)).type = "fixed"
          /\ FullDayOn(k, d)
          /\ per_map[k] <= hard_limit
          /\ \A k2 \in SeqToSet(Keys) \ {k} : ~FullDayOn(k2, d) )
        => day_alloc[d][k] = per_map[k]

\* C4: after every step of a floor pass, each team's seats on each day are at
\* most the team's headcount.
C4_NoOverAllocation ==
    InFloor => \A d \in DiasSet : \A k \in SeqToSet(Keys) : day_alloc[d][k] <= per_map[k]

HasRecord(k, d) ==
    \E i \in 1..Len(deficit_report) :
        /\ deficit_report[i].piso = piso_str
        /\ deficit_report[i].equipo = k
        /\ deficit_report[i].dia = d

\* C5: with rules enabled, every deficit record carries max(0, minimum -
\* assigned), and a team/day has a record exactly when that value is positive.
C5_DeficitConsistency ==
    ~ignore_params =>
        /\ \A i \in 1..Len(deficit_report) :
              deficit_report[i].deficit
                 = Max2(0, deficit_report[i].minimo - deficit_report[i].asignado)
        /\ pc = "fill" => \A d \in DiasSet : \A k \in SeqToSet(Keys) :
              HasRecord(k, d) <=> (min_map[k] - day_alloc[d][k] > 0)

\* C6 as claimed: every 'Cupos libres' row carries at least the reserve.
C6_PoolNeverBelowReserve ==
    \A i \in 1..Len(rows) : ~IsTeamRow(rows[i]) => rows[i].cupos >= cupos_reserva

Built == pc = "loop" /\ idx > 1 /\ piso_str # <<>>

\* C6 amended: every floor pass emits one 'Cupos libres' row per weekday, and
\* it carries min(reserve, total capacity of the floor): the reserve itself
\* unless the floor's total capacity is smaller than the reserve.
C6_PoolIsMinReserveCapacity ==
    Built => \A d \in DiasSet :
        LET last == CHOOSE i \in 1..Len(rows) :
                       /\ ~IsTeamRow(rows[i]) /\ rows[i].dia = d /\ rows[i].piso = piso_str
                       /\ \A j \in (i + 1)..Len(rows) :
                             ~(~IsTeamRow(rows[j]) /\ rows[j].dia = d /\ rows[j].piso = piso_str)
        IN  /\ \E i \in 1..Len(rows) :
                 ~IsTeamRow(rows[i]) /\ rows[i].dia = d /\ rows[i].piso = piso_str
            /\ rows[last].cupos = Min2(cupos_reserva, cap_total_real)

C6_Witness ==
    /\ Built
    /\ cap_total_real < cupos_reserva
    /\ \E i \in 1..Len(rows) : ~IsTeamRow(rows[i]) /\ rows[i].cupos = cap_total_real

\* C7: two independent calls of the engine with identical arguments return
\* identical rows in identical order, identical deficit records, identical
\* day-choice audit entries and identical score.
C7_EngineDeterminism ==
    (caller = "none" /\ Len(results) = 2) =>
        /\ results[1].rows = results[2].rows
        /\ results[1].deficit_report = results[2].deficit_report
        /\ results[1].audit = results[2].audit
        /\ results[1].score = results[2].score

\* two finished calls in which the generator broke a tie between equally
\* loaded days (the later option won) and seats were assigned
C7_Witness ==
    /\ caller = "none"
    /\ Len(results) = 2
    /\ \E i \in 1..Len(results[2].audit.full_day_choices) :
          /\ results[2].audit.full_day_choices[i].chosen_day = "Martes"
          /\ results[2].audit.full_day_choices[i].mode = "holgura"
    /\ \E i \in 1..Len(results[2].rows) : IsTeamRow(results[2].rows[i])

\* C8: two calls of get_distribution_proposal with identical tables and seed
\* (default strategy) return the same allocation rows and the same deficits
\* (compared as sets, whatever their order).
C8_ProposalDeterminism ==
    (caller = "proposal" /\ Len(returned) = 2) =>
        /\ SeqToSet(returned[1].rows) = SeqToSet(returned[2].rows)
        /\ SeqToSet(returned[1].deficit_report) = SeqToSet(returned[2].deficit_report)

\* C9: on a non-empty roster the variant optimizer ends normally and returns
\* only the variant whose score is the minimum over all trials, discarding
\* the others.
C9_BestVariantOnly ==
    /\ df_equipos # <<>> => pc # "raised"
    /\ (caller \in {"variants", "balanced"} /\ pc = "returned" /\ results # <<>>) =>
          /\ Len(returned) = 1
          /\ \A n \in 1..Len(results) :
                ~RatLess(results[n].score.score, returned[1].score.score)

C11_MissingColumnsRaise ==
    (caller = "none" /\ df_equipos # <<>> /\ ~HasKeyColumns(columns)) => results = <<>>

\* C12: when the minimums of a floor exceed its usable capacity, the engine
\* returns normally, the audit trail of the result lists the floor/day as
\* infeasible and every team left below its minimum has a deficit record.
C12_InfeasibleDaysReported ==
    \A n \in 1..Len(results) :
        (pc = "idle" /\ piso_str # <<>> /\ ~ignore_params
            /\ SumOver(Keys, min_map) > hard_limit) =>
            /\ "infeasible_days" \in DOMAIN results[n].audit
            /\ \A d \in DiasSet : \A k \in SeqToSet(Keys) :
                  day_alloc[d][k] < min_map[k] =>
                     \E i \in 1..Len(results[n].deficit_report) :
                        /\ results[n].deficit_report[i].equipo = k
                        /\ results[n].deficit_report[i].dia = d

\* C13: on a floor without a capacity row (each team listed once), the total
\* capacity is the sum of the coerced headcounts plus the reserve, and the
\* floor pass ends with every team holding its full headcount on every day.
C13_InferredCapacityKeepsWhole ==
    (pc = "build" /\ OncePerTeam /\ CapacidadPisos(df_capacidades, piso_str) = 0) =>
        /\ cap_total_real = SumOver(Keys, per_map) + cupos_reserva
        /\ \A d \in DiasSet : \A k \in SeqToSet(Keys) : day_alloc[d][k] = per_map[k]

\* C14: with ignore_params true, whatever the rule table holds, no rule is
\* kept for the call, no day-choice audit entry is recorded and no deficit
\* record is produced, during the call and in the returned result.
C14_IgnoreParamsBypass ==
    ignore_params =>
        /\ DOMAIN reglas_full_day = {}
        /\ full_day_choices = <<>>
        /\ deficit_report = <<>>
        /\ \A n \in 1..Len(results) :
              /\ results[n].audit.full_day_choices = <<>>
              /\ results[n].deficit_report = <<>>

\* a call that ignored a table holding a choice rule for a team of the roster
\* and trimmed seats, so that deficits would have been recorded otherwise
C14_Witness ==
    /\ ignore_params
    /\ HasChoice(df_parametros)
    /\ pc = "idle"
    /\ results # <<>>
    /\ total_recortes_full_day > 0
    /\ \E i \in 1..Len(df_equipos) : df_equipos[i].equipo = "A"

\* C15: the capacity trim of a floor pass never lowers, on any day, the seats
\* of a team that has no full-day rule making that day a full day.
C15_TrimOnlyFullDayTeams ==
    [][pc = "cap" => \A d \in DiasSet : \A k \in SeqToSet(Keys) :
          ~FullDayOn(k, d) => day_alloc'[d][k] >= day_alloc[d][k]]_vars

\* ------------------------------------------------------------------------
\* Direct calls of saint_lague_allocate (seats.py 108-154)
\* ------------------------------------------------------------------------
MaxSeats == 3

TeamKeys == <<"A", "B">>

\* the engine with no call under way, on no input
EngineIdle ==
    /\ df_equipos = <<>>
    /\ columns = RequiredColumns
    /\ df_parametros = <<>>
    /\ df_capacidades = <<>>
    /\ reserva_in = 0
    /\ ignore_params = FALSE
    /\ seed_in = 0
    /\ variant_mode = "holgura"
    /\ InitEngine
    /\ todo = 0

InitSaintLague ==
    /\ EngineIdle
    /\ NoSession
    /\ caller = "saint_lague_allocate"
    /\ fn_args \in [weights : [Equipos -> 0..MaxPer], seats : 0..MaxSeats,
                    current : [Equipos -> 0..1], caps : [Equipos -> 0..2], seed : Seeds]
    /\ fn_trace = <<[k \in Equipos |-> 0]>>
    /\ fn_ret = <<>>

\* the allocation after the first n iterations of the loop at seats.py 136
AllocAfter(n) ==
    saint_lague_allocate(TeamKeys, fn_args.weights, n, fn_args.current, fn_args.caps,
                         RngSeed(fn_args.seed, 0)).val

\* seats.py 136-152: one iteration that awards a seat
SaintLagueAward ==
    /\ caller = "saint_lague_allocate"
    /\ fn_ret = <<>>
    /\ Len(fn_trace) <= fn_args.seats
    /\ Candidates(TeamKeys, fn_args.weights, fn_args.caps, fn_trace[Len(fn_trace)]) # <<>>
    /\ fn_trace' = Append(fn_trace, AllocAfter(Len(fn_trace)))
    /\ UNCHANGED <<bookVars, inputVars, fn_args, fn_ret, todo, pc, argVars, rng, idx, floorVars, outVars,
                   results, returned>>

\* seats.py 122-123, 144-145, 154: the seats are exhausted or nobody is eligible
SaintLagueReturn ==
    /\ caller = "saint_lague_allocate"
    /\ fn_ret = <<>>
    /\ IF Len(fn_trace) > fn_args.seats THEN TRUE
       ELSE Candidates(TeamKeys, fn_args.weights, fn_args.caps, fn_trace[Len(fn_trace)]) = <<>>
    /\ fn_ret' = <<AllocAfter(fn_args.seats)>>
    /\ UNCHANGED <<bookVars, inputVars, fn_args, fn_trace, todo, pc, argVars, rng, idx, floorVars, outVars,
                   results, returned>>

NextSaintLague == SaintLagueAward \/ SaintLagueReturn

SpecSaintLague == InitSaintLague /\ [][NextSaintLague]_vars

\* sum of the caps of the teams with positive weight
CapsOfPositive ==
    SumSeq([i \in 1..Len(TeamKeys) |->
              IF fn_args.weights[TeamKeys[i]] > 0 THEN fn_args.caps[TeamKeys[i]] ELSE 0])

\* C16: every iteration of saint_lague_allocate awards exactly one seat, to a
\* team of positive weight below its cap whose quotient
\* weight / (2 * (current + awarded) + 1) is maximal among such teams; the
\* returned allocation is the last one, awards min(seats, sum of the caps of
\* the positive-weight teams) seats in total and keeps every team within its cap.
C16_SainteLagueStep ==
    caller = "saint_lague_allocate" =>
        /\ \A i \in 1..(Len(fn_trace) - 1) : \E k \in Equipos :
              /\ fn_trace[i + 1] = [fn_trace[i] EXCEPT ![k] = @ + 1]
              /\ fn_args.weights[k] > 0
              /\ fn_trace[i][k] < fn_args.caps[k]
              /\ \A k2 \in Equipos :
                    (fn_args.weights[k2] > 0 /\ fn_trace[i][k2] < fn_args.caps[k2]) =>
                       fn_args.weights[k2] * (2 * (fn_args.current[k] + fn_trace[i][k]) + 1)
                         <= fn_args.weights[k] * (2 * (fn_args.current[k2] + fn_trace[i][k2]) + 1)
        /\ fn_ret # <<>> =>
              /\ fn_ret[1] = fn_trace[Len(fn_trace)]
              /\ SumOver(TeamKeys, fn_ret[1]) = Min2(fn_args.seats, CapsOfPositive)
              /\ \A k \in Equipos : fn_ret[1][k] <= fn_args.caps[k]

\* a returned call in which the second seat went to the lighter team because
\* the heavier one had already been awarded a seat
C16_Witness ==
    /\ caller = "saint_lague_allocate"
    /\ fn_ret # <<>>
    /\ Len(fn_trace) >= 3
    /\ fn_args.weights["A"] > fn_args.weights["B"]
    /\ fn_args.current["A"] = fn_args.current["B"]
    /\ fn_trace[2]["A"] = 1
    /\ fn_trace[3]["B"] = 1
    /\ fn_args.caps["A"] = 2

\* ------------------------------------------------------------------------
\* choose_flexible_day: direct calls (seats.py 160-184) and the calls the
\* engine makes while it resolves the choice rules of a floor (seats.py 527-561)
\* ------------------------------------------------------------------------
OptionDays == {"Lunes", "Martes", "Sabado"}

OptionSeqs == {<<>>} \cup {<<a>> : a \in OptionDays} \cup {<<a, b>> : a, b \in OptionDays}

LoadTables ==
    {[d \in DiasSet |-> IF d = "Lunes" THEN x ELSE IF d = "Martes" THEN y ELSE 0] :
        x, y \in 0..2}

\* two teams of one floor, each listed once, both with a full-day rule
ChoiceRosters ==
    {<<>>} \cup
    {<<[piso |-> L3, equipo |-> "A", per |-> a, min |-> 0],
       [piso |-> L3, equipo |-> "B", per |-> b, min |-> 0]>> : a, b \in 1..MaxPer}

ChoiceTables ==
    {<<[nm |-> "A", valor |-> ta], [nm |-> "B", valor |-> tb]>> :
        ta \in {<<"Lunes", "o", "Martes">>, <<"Martes", "o", "Lunes">>},
        tb \in {<<"Lunes">>, <<"Lunes", "o", "Martes">>, <<"Martes", "o", "Miercoles">>}}

InitChooseDay ==
    \/ /\ EngineIdle
       /\ NoSession
       /\ caller = "choose_flexible_day"
       /\ fn_args \in [opts : OptionSeqs, per : 0..MaxPer, hard_limit : {0, 3},
                       load_by_day : LoadTables, mode : Modes, seed : Seeds]
       /\ fn_trace = <<>>
       /\ fn_ret = <<>>
    \/ /\ df_equipos \in ChoiceRosters
       /\ df_parametros \in ChoiceTables
       /\ df_capacidades \in CapTables
       /\ reserva_in \in Reserves
       /\ ignore_params = FALSE
       /\ seed_in \in Seeds
       /\ variant_mode \in Modes
       /\ columns \in ColumnSets
       /\ (df_capacidades = <<>> /\ reserva_in = 0 /\ seed_in = 0) \/ columns = RequiredColumns
       /\ InitEngine
       /\ NoSession
       /\ NoHelperCall
       /\ caller = "none"
       /\ todo = 1

\* a direct call of choose_flexible_day
ChooseDayCall ==
    /\ caller = "choose_flexible_day"
    /\ fn_ret = <<>>
    /\ fn_ret' = <<choose_flexible_day(fn_args.opts, fn_args.per, fn_args.hard_limit,
                                       fn_args.load_by_day, fn_args.mode,
                                       RngSeed(fn_args.seed, 0)).val>>
    /\ UNCHANGED <<bookVars, inputVars, fn_args, fn_trace, todo, pc, argVars, rng, idx, floorVars, outVars,
                   results, returned>>

NextChooseDay == ChooseDayCall \/ CallEngine \/ EngineStep

SpecChooseDay == InitChooseDay /\ [][NextChooseDay]_vars

\* the load of day d made of the fixed full-day teams of the floor
FixedLoadOn(d) ==
    SumSeq([i \in 1..Len(Keys) |->
              LET rule == ReglaGet(reglas_full_day, normalize_text(Keys[i]))
              IN  IF rule.type = "fixed" /\ InSeq(d, rule.days) THEN per_map[Keys[i]] ELSE 0])

\* the load of day d when the i-th choice of the floor is resolved: the fixed
\* teams and the choice teams resolved before
LoadBefore(i, d) ==
    FixedLoadOn(d)
    + SumSeq([j \in 1..(i - 1) |->
                IF full_day_choices[j].chosen_day = d
                THEN per_map[full_day_choices[j].equipo] ELSE 0])

\* C17: a direct call of choose_flexible_day returns None exactly when no
\* option is a key of the load table; otherwise it returns such an option,
\* which in mode "holgura" maximizes hard_limit - (load + per) and in mode
\* "equilibrar" has the lowest load among them.  In the engine (floors whose
\* teams are each listed once) every recorded choice is a day of the rule that
\* is optimal in that sense for the load made of the fixed full-day teams and
\* of the choice teams resolved earlier on the floor.
C17_DayChoiceStrategies ==
    /\ (caller = "choose_flexible_day" /\ fn_ret # <<>>) =>
          LET known == SeqToSet(fn_args.opts) \cap DOMAIN fn_args.load_by_day
              load  == fn_args.load_by_day
              r     == fn_ret[1]
          IN  /\ (r = "") <=> (known = {})
              /\ r # "" =>
                    /\ r \in known
                    /\ fn_args.mode = "holgura" => \A d \in known :
                          fn_args.hard_limit - (load[r] + fn_args.per)
                             >= fn_args.hard_limit - (load[d] + fn_args.per)
                    /\ fn_args.mode = "equilibrar" => \A d \in known : load[r] <= load[d]
    /\ (caller = "none" /\ pc = "minimos") =>
          \A i \in 1..Len(full_day_choices) :
             LET e    == full_day_choices[i]
                 per  == per_map[e.equipo]
                 days == ReglaGet(reglas_full_day, normalize_text(e.equipo)).days
             IN  /\ InSeq(e.chosen_day, days)
                 /\ e.mode = "holgura" => \A d \in SeqToSet(days) :
                       hard_limit - (LoadBefore(i, e.chosen_day) + per)
                          >= hard_limit - (LoadBefore(i, d) + per)
                 /\ e.mode = "equilibrar" => \A d \in SeqToSet(days) :
                       LoadBefore(i, e.chosen_day) <= LoadBefore(i, d)

\* the engine resolved two choice teams with the same two options in slack
\* mode: the first took Lunes, the second went to Martes to avoid its load
C17_Witness ==
    /\ caller = "none"
    /\ pc = "minimos"
    /\ Len(full_day_choices) = 2
    /\ full_day_choices[1].rule = <<"Lunes", "Martes">>
    /\ full_day_choices[2].rule = <<"Lunes", "Martes">>
    /\ full_day_choices[1].chosen_day = "Lunes"
    /\ full_day_choices[2].chosen_day = "Martes"
    /\ full_day_choices[2].mode = "holgura"

\* the day-choice audit entries recorded for a team of the current floor
ChoiceEntries(k) ==
    {i \in 1..Len(full_day_choices) :
        full_day_choices[i].piso = piso_str /\ full_day_choices[i].equipo = k}

\* C18: once the rules of a floor are resolved, every team of the floor whose
\* rule is a choice has exactly one day-choice audit entry for that floor, and
\* its chosen day is one of the days of the rule.
C18_ChoiceResolvesToOneDay ==
    (caller = "none" /\ pc = "minimos" /\ RulesApply) =>
        \A k \in SeqToSet(Keys) :
           LET rule == ReglaGet(reglas_full_day, normalize_text(k))
           IN  rule.type = "choice" =>
                  /\ Cardinality(ChoiceEntries(k)) = 1
                  /\ \A i \in ChoiceEntries(k) : InSeq(full_day_choices[i].chosen_day, rule.days)

\* ------------------------------------------------------------------------
\* The engine called again after a resolved choice rule has been rewritten
\* as a fixed rule on the chosen day
\* ------------------------------------------------------------------------
RuleRow(e, n) == [piso |-> L3, equipo |-> e, per |-> n, min |-> 0]

ReplaceRosters ==
    {<<>>}
    \cup {<<RuleRow("A", a), RuleRow("B", b)>> : a, b \in 1..MaxPer}
    \cup {<<RuleRow("A", 1), RuleRow("B", b1), RuleRow("B", b2)>> : b1, b2 \in 0..MaxPer}

InitReplace ==
    /\ df_equipos \in ReplaceRosters
    /\ df_parametros \in ChoiceTables
    /\ df_capacidades \in CapTables
    /\ reserva_in \in Reserves
    /\ ignore_params = FALSE
    /\ seed_in \in Seeds
    /\ variant_mode \in Modes
    /\ columns \in ColumnSets
    /\ (df_capacidades = <<>> /\ reserva_in = 0 /\ seed_in = 0) \/ columns = RequiredColumns
    /\ InitEngine
    /\ NoSession
    /\ NoHelperCall
    /\ caller = "none"
    /\ todo = 1

\* the day the first call applied as the full day of team "A": the last
\* choice recorded for it (seats.py 553, 573)
ChosenDayOfA ==
    LET fc == results[1].audit.full_day_choices
        of == SelectSeq(fc, LAMBDA e : e.equipo = "A")
    IN  IF of = <<>> THEN "" ELSE of[Len(of)].chosen_day

\* the caller rewrites the choice rule of "A" as the fixed rule of its
\* chosen day and asks for the distribution again
ReplaceRule ==
    /\ pc = "idle"
    /\ caller = "none"
    /\ todo = 0
    /\ Len(results) = 1
    /\ ChosenDayOfA # ""
    /\ df_parametros' = [i \in 1..Len(df_parametros) |->
                            IF df_parametros[i].nm = "A"
                            THEN [df_parametros[i] EXCEPT !.valor = <<ChosenDayOfA>>]
                            ELSE df_parametros[i]]
    /\ todo' = 1
    /\ UNCHANGED <<bookVars, df_equipos, columns, df_capacidades, reserva_in, ignore_params, seed_in,
                   variant_mode, caller, fnVars, pc, argVars, rng, idx, floorVars, outVars,
                   results, returned>>

NextReplace == CallEngine \/ EngineStep \/ ReplaceRule

SpecReplace == InitReplace /\ [][NextReplace]_vars

\* C19: when the choice rule of a team resolved to day d, the engine called
\* with that rule rewritten as a fixed rule on d returns the same allocation
\* rows and the same deficit records.
C19_ResolvedChoiceEqualsFixed ==
    (caller = "none" /\ Len(results) = 2) =>
        /\ results[1].rows = results[2].rows
        /\ results[1].deficit_report = results[2].deficit_report

\* ------------------------------------------------------------------------
\* Direct calls of parse_full_day_rule (seats.py 53-102)
\* ------------------------------------------------------------------------
MaxWords == 4

RuleWords == {"Lunes", "martes", "o", "O", "or", ","}

RECURSIVE WordSeqs(_)
WordSeqs(n) ==
    IF n = 0 THEN {<<>>}
    ELSE WordSeqs(n - 1) \cup {Append(t, w) : t \in {u \in WordSeqs(n - 1) : Len(u) = n - 1},
                                               w \in RuleWords}

InitParse ==
    /\ EngineIdle
    /\ NoSession
    /\ caller = "parse_full_day_rule"
    /\ fn_args \in [text : WordSeqs(MaxWords)]
    /\ fn_trace = <<>>
    /\ fn_ret = <<>>

ParseCall ==
    /\ caller = "parse_full_day_rule"
    /\ fn_ret = <<>>
    /\ fn_ret' = <<parse_full_day_rule(fn_args.text)>>
    /\ UNCHANGED <<bookVars, inputVars, fn_args, fn_trace, todo, pc, argVars, rng, idx, floorVars, outVars,
                   results, returned>>

NextParse == ParseCall

SpecParse == InitParse /\ [][NextParse]_vars

IsWeekdayWord(w) == MapaDia(w) # <<>>

ConnectiveWords == {"o", "O", "or", "OR"}

\* weekday words joined by commas, by connectives or by a comma and a
\* connective
WellFormedRule(t) ==
    /\ t # <<>>
    /\ IsWeekdayWord(t[1])
    /\ IsWeekdayWord(t[Len(t)])
    /\ \A i \in 2..(Len(t) - 1) :
          \/ /\ IsWeekdayWord(t[i])
             /\ ~IsWeekdayWord(t[i - 1])
          \/ /\ t[i] = ","
             /\ IsWeekdayWord(t[i - 1])
          \/ /\ t[i] \in ConnectiveWords
             /\ IsWeekdayWord(t[i - 1]) \/ t[i - 1] = ","
             /\ IsWeekdayWord(t[i + 1])
    /\ \A i \in 2..Len(t) : IsWeekdayWord(t[i]) => ~IsWeekdayWord(t[i - 1])

\* C20: parse_full_day_rule returns no rule for an empty text; for weekday
\* words joined by separators it returns a choice rule exactly when one of the
\* separators is the connective "o" or "or" (in any letter case, possibly
\* after a comma) and a fixed rule when the separators are commas only.
C20_RuleClassification ==
    (caller = "parse_full_day_rule" /\ fn_ret # <<>>) =>
        LET t        == fn_args.text
            joinedBy == \E i \in 1..Len(t) : t[i] \in ConnectiveWords
        IN  /\ t = <<>> => fn_ret[1] = [type |-> "none", days |-> <<>>]
            /\ WellFormedRule(t) =>
                  fn_ret[1].type = IF joinedBy THEN "choice" ELSE "fixed"

\* ------------------------------------------------------------------------
\* Termination: calls of the engine and of saint_lague_allocate, every
\* enabled step of which is eventually taken
\* ------------------------------------------------------------------------
\* nothing has been called yet
InitTermination ==
    /\ EngineIdle
    /\ NoSession
    /\ NoHelperCall
    /\ caller = "unset"

\* the caller prepares the tables of a call of the engine
SetupEngine ==
    /\ caller = "unset"
    /\ caller' = "none"
    /\ todo' = 1
    /\ df_equipos' \in {<<>>} \cup {<<RuleRow("A", a)>> : a \in 0..MaxPer}
                        \cup {<<RuleRow("A", MaxPer), RuleRow("B", b)>> : b \in 1..MaxPer}
    /\ df_parametros' \in {<<>>, <<[nm |-> "A", valor |-> <<"Lunes", "o", "Martes">>]>>}
    /\ df_capacidades' \in {<<>>, <<[piso |-> LPiso3, cap |-> 1]>>}
    /\ columns' \in {RequiredColumns, RequiredColumns \ {"minimo"}}
    /\ (columns' # RequiredColumns) => (df_capacidades' = <<>> /\ df_parametros' = <<>>)
    /\ UNCHANGED <<bookVars, reserva_in, seed_in, variant_mode, ignore_params, fnVars, pc, argVars, rng, idx, floorVars, outVars, results,
                   returned>>

\* the caller prepares the arguments of a call of saint_lague_allocate
SetupSaintLague ==
    /\ caller = "unset"
    /\ caller' = "saint_lague_allocate"
    /\ fn_args' \in [weights : [Equipos -> 1..2], seats : 0..MaxSeats,
                     current : {[k \in Equipos |-> 0]}, caps : [Equipos -> {0, 2}],
                     seed : {0}]
    /\ fn_trace' = <<[k \in Equipos |-> 0]>>
    /\ UNCHANGED <<bookVars, df_equipos, columns, df_parametros, df_capacidades, reserva_in, ignore_params,
                   seed_in, variant_mode, fn_ret, todo, pc, argVars, rng, idx, floorVars,
                   outVars, results, returned>>

NextTermination ==
    \/ SetupEngine
    \/ SetupSaintLague
    \/ CallEngine
    \/ EngineStep
    \/ SaintLagueAward
    \/ SaintLagueReturn

SpecTermination == InitTermination /\ [][NextTermination]_vars /\ WF_vars(NextTermination)

Terminated ==
    IF caller = "none" THEN pc = "idle" /\ todo = 0
    ELSE caller = "saint_lague_allocate" /\ fn_ret # <<>>

\* the seats above the usable capacity on day d of the current floor pass
Excess(d) == Max2(0, SumOver(Keys, day_alloc[d]) - hard_limit)

\* C21: every call terminates; the trim of a floor pass removes, on each
\* day, exactly max(0, assigned total - usable capacity) seats (the count of
\* removals grows by the sum of these over the week), and a call of
\* saint_lague_allocate makes at most 'seats' awards.
C21_Termination ==
    /\ <>Terminated
    /\ [][pc = "cap" =>
            /\ \A d \in DiasSet :
                  SumOver(Keys, day_alloc'[d]) = SumOver(Keys, day_alloc[d]) - Excess(d)
            /\ total_recortes_full_day' - total_recortes_full_day
                  = SumSeq([i \in 1..Len(dias_semana) |-> Excess(dias_semana[i])])]_vars
    /\ [](caller = "saint_lague_allocate" => Len(fn_trace) - 1 <= fn_args.seats)

\* a finished call of the engine whose trim removed seats
C21_Witness ==
    /\ caller = "none"
    /\ pc = "idle"
    /\ todo = 0
    /\ results # <<>>
    /\ total_recortes_full_day > 0


\* ------------------------------------------------------------------------
\* The engine called on a two-floor roster and again on one of its floors
\* ------------------------------------------------------------------------
FloorRow(l, e, n) == [piso |-> l, equipo |-> e, per |-> n, min |-> 0]

\* team "A" on floor 3 and team "B" on floor 4, in either order of the sheet
FloorRosters ==
    {<<>>}
    \cup {<<FloorRow(L4, "B", b), FloorRow(L3, "A", a)>> : a \in 1..MaxPer, b \in 0..MaxPer}
    \cup {<<FloorRow(L3, "A", a), FloorRow(L4, "B", b)>> : a \in 1..MaxPer, b \in 0..MaxPer}

\* every state of the generator is a seed
InitFloors ==
    /\ df_equipos \in FloorRosters
    /\ df_parametros = <<[nm |-> "A", valor |-> <<"Lunes", "o", "Martes">>]>>
    /\ df_capacidades \in CapTables
    /\ reserva_in \in Reserves
    /\ ignore_params = FALSE
    /\ seed_in \in 0..(RngMod - 1)
    /\ variant_mode \in Modes
    /\ columns \in ColumnSets
    /\ (df_capacidades = <<>> /\ reserva_in = 0 /\ seed_in = 0) \/ columns = RequiredColumns
    /\ InitEngine
    /\ NoSession
    /\ NoHelperCall
    /\ caller = "none"
    /\ todo = 1

\* the caller keeps the rows of floor 3 only and asks for the distribution
\* again, with the same seed and mode
KeepFloor ==
    /\ pc = "idle"
    /\ caller = "none"
    /\ todo = 0
    /\ Len(results) = 1
    /\ df_equipos' = SelectSeq(df_equipos, LAMBDA r : r.piso = L3)
    /\ todo' = 1
    /\ UNCHANGED <<bookVars, columns, df_parametros, df_capacidades, reserva_in, ignore_params, seed_in,
                   variant_mode, caller, fnVars, pc, argVars, rng, idx, floorVars, outVars,
                   results, returned>>

NextFloors == CallEngine \/ EngineStep \/ KeepFloor

SpecFloors == InitFloors /\ [][NextFloors]_vars

OfPiso(recs, piso) == SelectSeq(recs, LAMBDA r : r.piso = piso)

\* C22: the rows, the deficit records and the day-choice resolutions of a
\* floor are the same whether the roster holds other floors or not, in
\* whatever order the floors are processed, for the same seed.
C22_FloorIndependence ==
    (caller = "none" /\ Len(results) = 2) =>
        /\ OfPiso(results[1].rows, L3) = OfPiso(results[2].rows, L3)
        /\ OfPiso(results[1].deficit_report, L3) = OfPiso(results[2].deficit_report, L3)
        /\ OfPiso(results[1].audit.full_day_choices, L3)
             = OfPiso(results[2].audit.full_day_choices, L3)

\* the trial with the lowest score, the earliest one on ties
BestTrial(rs) ==
    rs[CHOOSE i \in 1..Len(rs) :
          /\ \A j \in 1..Len(rs) : ~RatLess(rs[j].score.score, rs[i].score.score)
          /\ \A j \in 1..(i - 1) : RatLess(rs[i].score.score, rs[j].score.score)]

\* C23: generate_balanced_distribution with ignore_params=False makes its
\* num_attempts trials, every trial completing normally, and returns the
\* trial with the lowest score (the earliest on ties).
C23_RuleModeOptimizerRun ==
    caller = "balanced" =>
        /\ pc # "raised"
        /\ pc = "returned" => /\ todo = 0
                              /\ results # <<>> => returned = <<Variant(BestTrial(results))>>

\* ------------------------------------------------------------------------
\* The engine called with the rules enabled and again with ignore_params=True
\* ------------------------------------------------------------------------
InitIgnore ==
    /\ InitInputs
    /\ ~ignore_params
    /\ InitEngine
    /\ NoSession
    /\ NoHelperCall
    /\ caller = "none"
    /\ todo = 1

\* the caller asks for the same distribution without the rules
SetIgnoreParams ==
    /\ pc = "idle"
    /\ caller = "none"
    /\ todo = 0
    /\ Len(results) = 1
    /\ ignore_params' = TRUE
    /\ todo' = 1
    /\ UNCHANGED <<bookVars, df_equipos, columns, df_parametros, df_capacidades, reserva_in, seed_in,
                   variant_mode, caller, fnVars, pc, argVars, rng, idx, floorVars, outVars,
                   results, returned>>

NextIgnore == CallEngine \/ EngineStep \/ SetIgnoreParams

SpecIgnore == InitIgnore /\ [][NextIgnore]_vars

\* C24: the allocation rows returned with a rule table and
\* ignore_params=False are the rows returned with ignore_params=True.
C24_RulesNeverChangeSeats ==
    (caller = "none" /\ Len(results) = 2) => results[1].rows = results[2].rows

\* C25: for every floor pass and weekday, after the trim and fill steps the
\* seats of the teams add up to min(usable capacity, sum of the teams'
\* headcounts), and the fill step never adds a seat.
C25_NoWastedSeats ==
    /\ [](pc = "build" =>
            \A d \in DiasSet :
                SumOver(Keys, day_alloc[d]) = Min2(hard_limit, SumOver(Keys, per_map)))
    /\ [][pc = "fill" => day_alloc' = day_alloc]_vars

\* the largest number of seats a team holds on day d of the floor pass
MaxAssigned(d) == CHOOSE m \in {day_alloc[d][k] : k \in SeqToSet(Keys)} :
                     \A k \in SeqToSet(Keys) : day_alloc[d][k] <= m

\* C26: on every floor/day of the final allocation, a team assigned fewer
\* seats than its headcount holds at least M - 1 seats, M being the largest
\* assignment of the floor/day; and two teams of equal headcount never
\* differ by more than one seat.
C26_LevellingFairness ==
    pc = "build" => \A d \in DiasSet :
        /\ \A k \in SeqToSet(Keys) :
              day_alloc[d][k] < per_map[k] => day_alloc[d][k] >= MaxAssigned(d) - 1
        /\ \A k1, k2 \in SeqToSet(Keys) :
              per_map[k1] = per_map[k2] => day_alloc[d][k1] - day_alloc[d][k2] <= 1

\* C27: all the variants returned by compute_distribution_variants carry the
\* same allocation rows, the same deficit records and the same score, and
\* the first of them is the one whose seed is variant_seed.
C27_VariantsNeverDiffer ==
    (caller = "variants" /\ pc = "returned") =>
        /\ \A i, j \in 1..Len(returned) :
              /\ returned[i].rows = returned[j].rows
              /\ returned[i].deficit_report = returned[j].deficit_report
              /\ returned[i].score = returned[j].score
        /\ returned[1].seed = seed_in

\* C28: with ignore_params=False the total_deficit of the score equals the
\* sum of the 'deficit' field over the returned deficit records, each record
\* counted once, also when two raw floor labels normalize to the same floor.
C28_ScoreDeficitTotal ==
    ~ignore_params => \A n \in 1..Len(results) :
        "total_deficit" \in DOMAIN results[n].score =>
            results[n].score.total_deficit
               = SumSeq([i \in 1..Len(results[n].deficit_report) |->
                            results[n].deficit_report[i].deficit])

\* ------------------------------------------------------------------------
\* The booking screen "Reservar Puesto Flex" used by concurrent sessions
\* (app.py 538-630, database.py 130-182)
\* ------------------------------------------------------------------------
Emails == {"ana@x.cl", "luis@x.cl"}

\* two working days of the same month
BookDates == {1, 2}

\* ORDER_DIAS[fe.weekday()]
DayName(fe) == IF fe = 1 THEN "Lunes" ELSE "Martes"

BookPiso == "Piso 3"

\* the stored distribution: one 'Cupos libres' row per day of the floor
StoredDistribution ==
    [i \in 1..Len(dias_semana) |->
        [piso |-> BookPiso, dia |-> dias_semana[i], equipo |-> "Cupos libres", cupos |-> 1]]

\* app.py 557-563: the 'Cupos libres' seats of the floor/day
TotalCupos(pi, dn) ==
    SumSeq([i \in 1..Len(StoredDistribution) |->
              IF /\ StoredDistribution[i].piso = pi
                 /\ StoredDistribution[i].dia = dn
                 /\ StoredDistribution[i].equipo = "Cupos libres"
              THEN StoredDistribution[i].cupos ELSE 0])

\* app.py 569-575 on the labels of the stored distribution
NormPisoLocal(x) == IF x = "3" THEN "Piso 3" ELSE x

\* app.py 565-582: the reservations of the date and floor in the listing
Ocupados(listing, pi, fe) ==
    Cardinality({i \in 1..Len(listing) :
                    /\ listing[i].reservation_date = fe
                    /\ NormPisoLocal(listing[i].piso) = NormPisoLocal(pi)})

Disponibles(listing, pi, fe) == Max2(0, TotalCupos(pi, DayName(fe)) - Ocupados(listing, pi, fe))

\* database.py 151-156: the cached listing if there is one, else the worksheet
ListReservations == IF list_cache = <<>> THEN reservations ELSE list_cache[1]

\* database.py 139-149: read from the worksheet itself
user_has_reservation(email, fe) ==
    \E i \in 1..Len(reservations) :
        reservations[i].user_email = email /\ reservations[i].reservation_date = fe

\* database.py 173-182; every date of the model is in the same month
count_monthly_free_spots(listing, identifier) ==
    Cardinality({i \in 1..Len(listing) :
                    /\ listing[i].user_email = identifier \/ listing[i].user_name = identifier
                    /\ listing[i].team_area = "Cupos libres"})

MONTHLY_LIMIT == 2

\* submissions a session makes at most
MaxSubmits == 2

InitBooking ==
    /\ EngineIdle
    /\ NoHelperCall
    /\ caller = "booking"
    /\ reservations = <<>>
    /\ list_cache = <<>>
    /\ session = [s \in Sessions |-> [pc |-> "screen", submits |-> 0]]

\* app.py 542-584: the script run that draws the form for the chosen date
\* and reads how many seats are left
SelectDate(s) ==
    /\ session[s].pc = "screen"
    /\ session[s].submits < MaxSubmits
    /\ \E fe \in BookDates :
          session' = [session EXCEPT ![s] =
                         [pc |-> "form", submits |-> session[s].submits, fe |-> fe,
                          disponibles |-> Disponibles(ListReservations, BookPiso, fe)]]
    /\ list_cache' = <<ListReservations>>
    /\ UNCHANGED <<engineVars, reservations>>

\* app.py 596-608: the button is pressed (it is enabled while seats were
\* left at the last run); the script runs again and reads the seats left
Submit(s) ==
    /\ session[s].pc = "form"
    /\ session[s].disponibles > 0
    /\ \E em \in Emails :
          session' = [session EXCEPT ![s] =
                         [pc |-> "submitted", submits |-> session[s].submits + 1,
                          fe |-> session[s].fe, em |-> em,
                          disponibles |-> Disponibles(ListReservations, BookPiso, session[s].fe)]]
    /\ list_cache' = <<ListReservations>>
    /\ UNCHANGED <<engineVars, reservations>>

\* app.py 615-616: the person already holds a reservation for the date
CheckUser(s) ==
    /\ session[s].pc = "submitted"
    /\ session' = [session EXCEPT ![s].pc =
                      IF user_has_reservation(session[s].em, session[s].fe)
                      THEN "screen" ELSE "checked"]
    /\ UNCHANGED <<engineVars, reservations, list_cache>>

\* app.py 617-620: the monthly limit and the seats left
CheckLimits(s) ==
    /\ session[s].pc = "checked"
    /\ session' = [session EXCEPT ![s].pc =
                      IF \/ count_monthly_free_spots(ListReservations, session[s].em)
                              >= MONTHLY_LIMIT
                         \/ session[s].disponibles <= 0
                      THEN "screen" ELSE "append"]
    /\ list_cache' = <<ListReservations>>
    /\ UNCHANGED <<engineVars, reservations>>

\* app.py 621-630, database.py 130-137: the row is appended and the cached
\* listing dropped
AddReservation(s) ==
    /\ session[s].pc = "append"
    /\ reservations' = Append(reservations,
                          [user_name |-> "General", user_email |-> session[s].em,
                           piso |-> BookPiso, reservation_date |-> session[s].fe,
                           team_area |-> "Cupos libres"])
    /\ list_cache' = <<>>
    /\ session' = [session EXCEPT ![s].pc = "screen"]
    /\ UNCHANGED engineVars

\* database.py 151: the cached listing expires (ttl=60)
CacheExpire ==
    /\ list_cache # <<>>
    /\ list_cache' = <<>>
    /\ UNCHANGED <<engineVars, reservations, session>>

NextBooking ==
    \/ \E s \in Sessions : SelectDate(s)
    \/ \E s \in Sessions : Submit(s)
    \/ \E s \in Sessions : CheckUser(s)
    \/ \E s \in Sessions : CheckLimits(s)
    \/ \E s \in Sessions : AddReservation(s)
    \/ CacheExpire

SpecBooking == InitBooking /\ [][NextBooking]_vars

\* C29: under any interleaving of the sessions, the stored drop-in
\* reservations of a floor and date never outnumber the 'Cupos libres' seats
\* of that floor/day in the stored distribution.
C29_NoOverbooking ==
    \A fe \in BookDates :
        Ocupados(reservations, BookPiso, fe) <= TotalCupos(BookPiso, DayName(fe))

\* C30: under any interleaving of the sessions, the reservations worksheet
\* never holds two reservations with the same email and the same date.
C30_OneReservationPerPersonAndDate ==
    \A i, j \in 1..Len(reservations) :
        (/\ reservations[i].user_email = reservations[j].user_email
         /\ reservations[i].reservation_date = reservations[j].reservation_date) => i = j

====
